---- MODULE Spec2Model ----
(***************************************************************************)
(* Routing and dispatch engine of pluto: the method-indexed route table    *)
(* (Router), the Cors response policy and the dispatch orchestrator        *)
(* (HttpServe::serve).                                                     *)
(*                                                                         *)
(* A string (path, url, header value) is a sequence of tokens: the token   *)
(* "/" is the path separator, "?" starts the query string, every other     *)
(* token is a run of characters holding neither.  A token that begins with *)
(* ":" is a named route parameter.                                         *)
(***************************************************************************)
EXTENDS Integers, Sequences, FiniteSets, TLC

VARIABLES
    router,     \* the Router a setup pass is building
    ROUTER,     \* the holder of the installed route table (None before the first install)
    phase,      \* "setup" | "serving" | "aborted" (a registration panicked)
    last,       \* the call that has just completed; [op |-> "none"] once its result is returned
    cors,       \* the Cors value a builder chain has produced so far
    inflight    \* per invocation of an entry point: idle, or suspended in its handler

vars == <<router, ROUTER, phase, last, cors, inflight>>

None == <<>>
Some(x) == <<x>>

-----------------------------------------------------------------------------
(* Bounds and input sets *)

MaxRoutes == 2

Str(w) == <<"/", w>>

\* Inputs of the dispatch specification (Spec).
RegPaths == { Str("hello"), Str(":value") }
RegMethods == {"GET", "POST", "OPTIONS"}
Urls == { <<"/">>, Str("hello"), Str("hello") \o <<"/", "?", "q=1">>, Str("abc123") }
ReqMethods == {"GET", "POST", "OPTIONS", "DELETE", "FOO"}

\* Entry-point invocations that may be in flight together (SpecUpgrade).
MaxInvocations == 2
Invocations == 1..MaxInvocations
Idle == [stage |-> "idle"]

\* Inputs of the routing specification (SpecRouting).
Prefixes == { <<>>, Str("api") }
RoutingMethods == {"GET", "PUT", "OPTIONS"}
RoutingRegPaths ==
    { <<"/">>, Str("hello"), Str("hello") \o <<"/">>, Str(":value"), Str(":id") }
RoutingPaths ==
    { <<>>, <<"/">>, Str("hello"), Str("hello") \o <<"/">>, Str("abc123"),
      Str("api"), Str("api") \o Str("hello"), Str("api") \o Str("abc123"), <<"*">> }
RoutingUrls ==
    { <<"/">>, <<"/", "/">>, Str("hello"), Str("hello") \o <<"/">>,
      Str("hello") \o <<"/", "?", "q=1">>, Str("hello") \o <<"?", "q=1">>,
      Str("hello") \o <<"/", "/">>, Str("abc123"), Str("api") \o Str("hello"),
      Str("api") \o Str("hello") \o <<"/">> }

-----------------------------------------------------------------------------
(* Method *)

Methods == {"GET", "HEAD", "OPTIONS", "POST", "PUT", "PATCH", "DELETE"}

from_str_lenient(s) == Some(s)
from_str(s) == IF s \in Methods THEN Some(s) ELSE None

-----------------------------------------------------------------------------
(* String helpers *)

ends_with_slash(s) == Len(s) > 0 /\ s[Len(s)] = "/"
starts_with_slash(s) == Len(s) > 0 /\ s[1] = "/"
pop(s) == SubSeq(s, 1, Len(s) - 1)

\* url.split('?').next(): everything before the first "?"
BeforeQuery(url) ==
    IF \E i \in 1..Len(url) : url[i] = "?"
    THEN LET i == CHOOSE i \in 1..Len(url) : url[i] = "?" /\ \A j \in 1..(i - 1) : url[j] # "?"
         IN  SubSeq(url, 1, i - 1)
    ELSE url

get_path_keep_slash(url) == BeforeQuery(url)
get_path_keep_root(url) ==
    LET path == BeforeQuery(url)
    IN  IF ends_with_slash(path) /\ Len(path) > 1 THEN pop(path) ELSE path
get_path(url) ==
    LET path == BeforeQuery(url)
    IN  IF ends_with_slash(path) THEN pop(path) ELSE path

\* list.join(sep)
RECURSIVE join(_, _)
join(list, sep) ==
    IF Len(list) = 0 THEN <<>>
    ELSE IF Len(list) = 1 THEN <<list[1]>>
    ELSE <<list[1], sep>> \o join(Tail(list), sep)

insert(map, k, v) == [x \in (DOMAIN map) \cup {k} |-> IF x = k THEN v ELSE map[x]]

EmptyMap == [x \in {} |-> <<>>]

-----------------------------------------------------------------------------
(* The path trie (matchit::Router) of one method: a set of entries          *)
(* [route, value].                                                        *)

RECURSIVE Split(_)
Split(s) ==
    IF \A i \in 1..Len(s) : s[i] # "/" THEN <<s>>
    ELSE LET i == CHOOSE i \in 1..Len(s) : s[i] = "/" /\ \A j \in 1..(i - 1) : s[j] # "/"
         IN  <<SubSeq(s, 1, i - 1)>> \o Split(SubSeq(s, i + 1, Len(s)))

ParamTokens == {":value", ":id"}
ParamName(tok) == IF tok = ":value" THEN "value" ELSE "id"
IsParam(seg) == Len(seg) = 1 /\ seg[1] \in ParamTokens

\* a named parameter takes one whole non-empty segment; a literal segment must be equal
SegMatch(ps, xs) == IF IsParam(ps) THEN xs # <<>> ELSE ps = xs

Matches(route, path) ==
    LET P == Split(route)
        X == Split(path)
    IN  Len(P) = Len(X) /\ \A i \in 1..Len(P) : SegMatch(P[i], X[i])

Bind(route, path) ==
    LET P == Split(route)
        X == Split(path)
        I == {i \in 1..Len(P) : IsParam(P[i])}
    IN  [n \in {ParamName(P[i][1]) : i \in I} |->
            X[CHOOSE i \in I : ParamName(P[i][1]) = n][1]]

\* p is preferred to q: at the first segment where they differ p has the literal
MoreStatic(p, q) ==
    LET P == Split(p)
        Q == Split(q)
    IN  \E i \in 1..Len(P) :
            /\ i <= Len(Q)
            /\ \A j \in 1..(i - 1) : P[j] = Q[j]
            /\ ~IsParam(P[i])
            /\ IsParam(Q[i])

\* two routes that put differently named parameters at the same place of the trie
ParamClash(p, q) ==
    LET P == Split(p)
        Q == Split(q)
    IN  \E i \in 1..Len(P) :
            /\ i <= Len(Q)
            /\ \A j \in 1..(i - 1) : P[j] = Q[j]
            /\ IsParam(P[i]) /\ IsParam(Q[i])
            /\ P[i] # Q[i]

InsertConflict(tree, route) ==
    \E e \in tree : e.route = route \/ ParamClash(e.route, route)

\* tree.at(path): None, or Some([value, params])
at_param_first(tree, path) ==
    LET cand == {e \in tree : Matches(e.route, path)}
    IN  IF cand = {} THEN None
        ELSE LET e == CHOOSE e \in cand : \A f \in cand : ~MoreStatic(e.route, f.route)
             IN  Some([value |-> e.value, params |-> Bind(e.route, path), route |-> e.route])
at(tree, path) ==
    LET cand == {e \in tree : Matches(e.route, path)}
    IN  IF cand = {} THEN None
        ELSE LET e == CHOOSE e \in cand : \A f \in cand : ~MoreStatic(f.route, e.route)
             IN  Some([value |-> e.value, params |-> Bind(e.route, path), route |-> e.route])

-----------------------------------------------------------------------------
(* Router *)

RouterNew ==
    [prefix |-> <<>>, trees |-> EmptyMap, handle_options |-> TRUE, global_options |-> None]

NumRoutes(r) ==
    LET RECURSIVE Sum(_)
        Sum(S) == IF S = {} THEN 0
                  ELSE LET m == CHOOSE m \in S : TRUE
                       IN  Cardinality(r.trees[m]) + Sum(S \ {m})
    IN  Sum(DOMAIN r.trees)

tree_of(r, method) == IF method \in DOMAIN r.trees THEN r.trees[method] ELSE {}

\* the path Router::handle files the handler under
global_path_no_prefix(prefix, path) == IF ends_with_slash(path) THEN pop(path) ELSE path
global_path(prefix, path) ==
    LET g == prefix \o path
    IN  IF ends_with_slash(g) THEN pop(g) ELSE g

\* the closure handed to a registration call, named by the call that supplied it
HandlerOf(r, path, method) == [method |-> method, path |-> path, prefix |-> r.prefix]

handle_panics_path_only(r, path, method) == ~starts_with_slash(path)
handle_panics_conflict_only(r, path, method) ==
    InsertConflict(tree_of(r, method), global_path(r.prefix, path))
handle_panics(r, path, method) ==
    \/ ~starts_with_slash(path)
    \/ InsertConflict(tree_of(r, method), global_path(r.prefix, path))

handle(r, path, upgrade, method) ==
    LET entry == [route |-> global_path(r.prefix, path),
                  value |-> [upgrade |-> upgrade, handler |-> HandlerOf(r, path, method)]]
    IN  [r EXCEPT !.trees = insert(r.trees, method, tree_of(r, method) \cup {entry})]

\* the closure handed to Router::global_options
GlobalHandler == [method |-> "global_options", path |-> <<>>, prefix |-> <<>>]

global_options(r, upgrade) ==
    [r EXCEPT !.global_options = Some([upgrade |-> upgrade, handler |-> GlobalHandler])]

handle_options(r, b) == [r EXCEPT !.handle_options = b]

set_global_prefix(r, p) == [r EXCEPT !.prefix = p]

lookup_stripping(r, method, path) ==
    LET m == at(tree_of(r, method), IF ends_with_slash(path) THEN pop(path) ELSE path)
    IN  IF m # None THEN [ok |-> TRUE, value |-> m[1].value, params |-> m[1].params,
                          route |-> m[1].route]
        ELSE [ok |-> FALSE,
              message |-> <<"Cannot", method>> \o (IF path = <<>> THEN <<"/">> ELSE path)]
lookup(r, method, path) ==
    LET m == at(tree_of(r, method), path)
    IN  IF m # None THEN [ok |-> TRUE, value |-> m[1].value, params |-> m[1].params,
                          route |-> m[1].route]
        ELSE [ok |-> FALSE,
              message |-> <<"Cannot", method>> \o (IF path = <<>> THEN <<"/">> ELSE path)]

\* the verbs allowed() collects before OPTIONS is appended
allowed_verbs_keep_options(r, path) ==
    IF path = <<"*">>
    THEN DOMAIN r.trees
    ELSE {m \in DOMAIN r.trees : at(r.trees[m], path) # None}
allowed_verbs(r, path) ==
    IF path = <<"*">>
    THEN {m \in DOMAIN r.trees : m # "OPTIONS"}
    ELSE {m \in DOMAIN r.trees : m # "OPTIONS" /\ at(r.trees[m], path) # None}

Orders(S) == {s \in [1..Cardinality(S) -> S] : \A i, j \in 1..Cardinality(S) : i # j => s[i] # s[j]}

\* allowed(path): the verbs come in the iteration order of a HashMap, which is
\* unspecified, so every order is a possible result
allowed(r, path) ==
    LET S == allowed_verbs(r, path)
    IN  IF S = {} THEN {<<>>} ELSE {Append(o, "OPTIONS") : o \in Orders(S)}

-----------------------------------------------------------------------------
(* Cors *)

CorsNew ==
    [allow_origin |-> None, allow_methods |-> <<>>, allow_headers |-> <<>>,
     allow_credentials |-> FALSE, expose_headers |-> <<>>, max_age |-> None,
     vary_origin |-> FALSE]

allow_origin(c, origin) == [c EXCEPT !.allow_origin = Some(<<"Some", origin>>)]
any(c) == [c EXCEPT !.allow_origin = Some(<<"All">>)]
credentials(c, value) == [c EXCEPT !.allow_credentials = value]
exposed_headers(c, headers) == [c EXCEPT !.expose_headers = headers]
allow_headers(c, headers) == [c EXCEPT !.allow_headers = headers]
max_age(c, value) == [c EXCEPT !.max_age = value]
allow_methods(c, methods) == [c EXCEPT !.allow_methods = methods]

add_raw_header_if_absent(res, key, value) ==
    IF key \in DOMAIN res.headers THEN res
    ELSE [res EXCEPT !.headers = insert(res.headers, key, value)]
add_raw_header(res, key, value) == [res EXCEPT !.headers = insert(res.headers, key, value)]

merge_unguarded(c, response) ==
    IF c.allow_methods # <<>>
    THEN add_raw_header(response, "Access-Control-Allow-Methods", join(c.allow_methods, ", "))
    ELSE response
merge(c, response) ==
    IF c.allow_origin = None THEN response
    ELSE
    LET origin == IF c.allow_origin[1] = <<"All">> THEN <<"*">> ELSE <<c.allow_origin[1][2]>>
        r1 == add_raw_header(response, "Access-Control-Allow-Origin", origin)
        r2 == IF c.allow_credentials
              THEN add_raw_header(r1, "Access-Control-Allow-Credentials", <<"true">>) ELSE r1
        r3 == IF c.expose_headers # <<>>
              THEN add_raw_header(r2, "Access-Control-Expose-Headers", join(c.expose_headers, ", "))
              ELSE r2
        r4 == IF c.allow_headers # <<>>
              THEN add_raw_header(r3, "Access-Control-Allow-Headers", join(c.allow_headers, ", "))
              ELSE r3
        r5 == IF c.allow_methods # <<>>
              THEN add_raw_header(r4, "Access-Control-Allow-Methods", join(c.allow_methods, ", "))
              ELSE r4
        r6 == IF c.max_age # None
              THEN add_raw_header(r5, "Access-Control-Max-Age", <<ToString(c.max_age[1])>>)
              ELSE r5
    IN  IF c.vary_origin THEN add_raw_header(r6, "Vary", <<"Origin">>) ELSE r6

-----------------------------------------------------------------------------
(* HttpResponse, RawHttpResponse *)

\* HttpBody: a variant tag and the content
Value(j) == <<"Value", j>>
String(s) == <<"String", s>>
Raw(v) == <<"Raw", v>>

\* From<HttpBody> for Vec<u8>: the bytes of the content; the variant is not kept
body_bytes(b) ==
    IF b[1] = "Value" THEN <<"json", b[2]>> ELSE IF b[1] = "String" THEN <<"utf8", b[2]>> ELSE b[2]

HttpResponse(status, headers, body) ==
    [status_code |-> status, headers |-> headers, body |-> body]

set_upgrade_ignored(raw, upgrade) == raw
set_upgrade(raw, upgrade) == [raw EXCEPT !.upgrade = Some(upgrade)]

enrich_header_always_json(raw) ==
    [raw EXCEPT !.headers = insert(insert(raw.headers, "Content-Type", <<"application/json">>),
                                   "X-Powered-By", <<"Pluto">>)]
enrich_header(raw) ==
    LET h == IF "Content-Type" \notin DOMAIN raw.headers
             THEN insert(raw.headers, "Content-Type", <<"application/json">>)
             ELSE raw.headers
    IN  [raw EXCEPT !.headers = insert(h, "X-Powered-By", <<"Pluto">>)]

\* From<HttpResponse> for RawHttpResponse
into_raw_no_flag(res) ==
    enrich_header([status_code |-> res.status_code, headers |-> res.headers,
                   body |-> body_bytes(res.body), upgrade |-> None])
into_raw(res) ==
    enrich_header([status_code |-> res.status_code, headers |-> res.headers,
                   body |-> body_bytes(res.body), upgrade |-> Some(FALSE)])

internal_server_error_cors ==
    HttpResponse(500, [h \in {"Access-Control-Allow-Origin"} |-> <<"*">>],
                 Value([statusCode |-> 500, message |-> <<"Internal server error">>]))
internal_server_error ==
    HttpResponse(500, EmptyMap,
                 Value([statusCode |-> 500, message |-> <<"Internal server error">>]))

not_found_error_generic(message) ==
    HttpResponse(404, EmptyMap,
                 Value([statusCode |-> 404, message |-> <<"Not Found">>, error |-> "Not Found"]))
not_found_error(message) ==
    HttpResponse(404, EmptyMap,
                 Value([statusCode |-> 404, message |-> message, error |-> "Not Found"]))

\* Result<HttpResponse, HttpResponse>
Ok(r) == <<"Ok", r>>
Err(r) == <<"Err", r>>

unwrap_response_ok_only(res) ==
    IF res[1] = "Ok" THEN res[2] ELSE [res[2] EXCEPT !.status_code = 500]
unwrap_response(res) ==
    IF res[1] = "Ok" THEN res[2] ELSE res[2]

add_cors_to_res(cors_policy, res) ==
    IF cors_policy # None THEN merge(cors_policy[1], res) ELSE res

use_res_plugins(cors_policy, res) == add_cors_to_res(cors_policy, res)

\* what handlers return: a response with no headers, as Ok and as Err, and one that
\* sets Content-Type and X-Powered-By itself
HelloResponse == HttpResponse(200, EmptyMap, Value("hello"))
BadResponse ==
    HttpResponse(400,
                 [x \in {"Content-Type", "X-Powered-By"} |->
                      IF x = "Content-Type" THEN <<"text/plain">> ELSE <<"handler">>],
                 String("bad"))
HandlerResults == { Ok(HelloResponse), Err(HelloResponse), Err(BadResponse) }

\* policies handed to use_cors
CorsPolicies ==
    { None,
      Some(allow_methods(CorsNew, <<"GET">>)),
      Some(max_age(allow_methods(any(CorsNew), <<"POST", "PUT">>), Some(3600))),
      Some(allow_origin(CorsNew, "https://a.example")) }

-----------------------------------------------------------------------------
(* HttpServe *)

\* From<RawHttpRequest> for HttpRequest
into_request(req) ==
    [method |-> req.method, url |-> req.url, params |-> EmptyMap, path |-> <<>>]

params_to_string(params) == params

\* The request handed to the matched handler and, for the result the handler gives,
\* the wire response.
enriched_request(req, path, lk) ==
    [into_request(req) EXCEPT !.path = path, !.params = params_to_string(lk.params)]

build_and_execute_request(cors_policy, handle_res, upgrade) ==
    set_upgrade(into_raw(use_res_plugins(cors_policy, unwrap_response(handle_res))), upgrade)

\* the fallback (global OPTIONS) branch of serve
fallback_response(cors_policy, handle_res, upgrade) ==
    set_upgrade(into_raw(unwrap_response(handle_res)), upgrade)

\* the synthetic pre-flight answer of serve
preflight_response_overwrite(cors_policy, allow) ==
    LET res == use_res_plugins(cors_policy, HttpResponse(204, EmptyMap, String(<<>>)))
    IN  into_raw([res EXCEPT !.headers =
                      insert(res.headers, "Access-Control-Allow-Methods", join(allow, ","))])
preflight_response(cors_policy, allow) ==
    LET res == use_res_plugins(cors_policy, HttpResponse(204, EmptyMap, String(<<>>)))
    IN  into_raw(IF "Access-Control-Allow-Methods" \notin DOMAIN res.headers
                 THEN [res EXCEPT !.headers =
                           insert(res.headers, "Access-Control-Allow-Methods", join(allow, ","))]
                 ELSE res)

\* the read-only gate: a matched handler that needs the update call is not run in a query
gate_rejects_open(is_query, upgrade) == FALSE
gate_rejects_upgrade(is_query, upgrade) == upgrade
gate_rejects_query(is_query, upgrade) == is_query
gate_rejects(is_query, upgrade) == is_query /\ upgrade

\* the condition under which an unmatched request is treated as a pre-flight
is_preflight_always(r, req) == req.method = "OPTIONS"
is_preflight(r, req) == req.method = "OPTIONS" /\ r.handle_options

Call(container, hreq, hres) ==
    [handler |-> container.handler, upgrade |-> container.upgrade, req |-> hreq, res |-> hres]

Done(req, is_query, cors_policy, outcome, calls, res) ==
    [op |-> "serve", req |-> req, is_query |-> is_query, cors |-> cors_policy,
     outcome |-> outcome, calls |-> calls, res |-> res]

\* every completed run of serve(req) on table r: one per handler result and per order
\* in which allowed() may list the verbs
serve(r, cors_policy, is_query, req) ==
    LET parsed == from_str(req.method)
        path == get_path(req.url)
        D(outcome, calls, res) == Done(req, is_query, cors_policy, outcome, calls, res)
    IN
    IF parsed = None
    THEN { D("MalformedMethod", <<>>, into_raw(internal_server_error)) }
    ELSE
    LET lk == lookup(r, parsed[1], path)
        not_found == { D("NoRoute", <<>>, into_raw(not_found_error(lk.message))) }
    IN
    IF ~lk.ok
    THEN IF is_preflight(r, req)
         THEN UNION { IF allow # <<>>
                      THEN IF r.global_options # None
                           THEN { D("PreflightFallback",
                                    <<Call(r.global_options[1], into_request(req), hres)>>,
                                    fallback_response(cors_policy, hres,
                                                      r.global_options[1].upgrade))
                                  : hres \in HandlerResults }
                           ELSE { D("PreflightAnswered", <<>>,
                                    preflight_response(cors_policy, allow)) }
                      ELSE not_found
                      : allow \in allowed(r, path) }
         ELSE not_found
    ELSE LET upgrade == lk.value.upgrade
         IN  IF gate_rejects(is_query, upgrade)
             THEN { D("UpgradeRequired", <<>>,
                      set_upgrade(into_raw(internal_server_error), upgrade)) }
             ELSE { D("Handled",
                      <<Call(lk.value, enriched_request(req, path, lk), hres)>>,
                      build_and_execute_request(cors_policy, hres, upgrade))
                    : hres \in HandlerResults }

-----------------------------------------------------------------------------
(* Setup pass *)

Init ==
    /\ router = RouterNew
    /\ ROUTER = None
    /\ phase = "setup"
    /\ last = [op |-> "none"]
    /\ cors = CorsNew
    /\ inflight = [i \in Invocations |-> Idle]

SetGlobalPrefix(p) ==
    /\ phase = "setup"
    /\ router' = set_global_prefix(router, p)
    /\ UNCHANGED <<ROUTER, phase, last, cors, inflight>>

Handle(path, upgrade, method) ==
    /\ phase = "setup"
    /\ NumRoutes(router) < MaxRoutes
    /\ IF handle_panics(router, path, method)
       THEN /\ phase' = "aborted"
            /\ last' = [op |-> "panic", path |-> path, method |-> method]
            /\ UNCHANGED <<router, ROUTER, cors, inflight>>
       ELSE /\ router' = handle(router, path, upgrade, method)
            /\ UNCHANGED <<ROUTER, phase, last, cors, inflight>>

HandleOptions(b) ==
    /\ phase = "setup"
    /\ router' = handle_options(router, b)
    /\ UNCHANGED <<ROUTER, phase, last, cors, inflight>>

GlobalOptions(upgrade) ==
    /\ phase = "setup"
    /\ router' = global_options(router, upgrade)
    /\ UNCHANGED <<ROUTER, phase, last, cors, inflight>>

\* the table returned by the setup pass is stored in the holder
Install ==
    /\ phase = "setup"
    /\ ROUTER' = Some(router)
    /\ router' = RouterNew
    /\ phase' = "serving"
    /\ UNCHANGED <<last, cors, inflight>>

\* one invocation of an entry point: http_request (is_query) or http_request_update
Serve(req, is_query, cors_policy) ==
    /\ phase = "serving"
    /\ last.op = "none"
    /\ \E d \in serve(ROUTER[1], cors_policy, is_query, req) : last' = d
    /\ UNCHANGED <<router, ROUTER, phase, cors, inflight>>

\* the result of the completed call is handed back to the caller
Return ==
    /\ last.op \notin {"none", "panic"}
    /\ last' = [op |-> "none"]
    /\ UNCHANGED <<router, ROUTER, phase, cors, inflight>>

\* Router::lookup called on the installed table
LookupCall(method, path) ==
    /\ phase = "serving"
    /\ last.op = "none"
    /\ last' = [op |-> "lookup", method |-> method, path |-> path,
                res |-> lookup(ROUTER[1], method, path)]
    /\ UNCHANGED <<router, ROUTER, phase, cors, inflight>>

\* Router::allowed called on the installed table
AllowedCall(path) ==
    /\ phase = "serving"
    /\ last.op = "none"
    /\ \E allow \in allowed(ROUTER[1], path) :
           last' = [op |-> "allowed", path |-> path, res |-> allow]
    /\ UNCHANGED <<router, ROUTER, phase, cors, inflight>>

Next ==
    \/ \E p \in RegPaths, u \in BOOLEAN, m \in RegMethods : Handle(p, u, m)
    \/ \E b \in BOOLEAN : HandleOptions(b)
    \/ \E u \in BOOLEAN : GlobalOptions(u)
    \/ Install
    \/ \E m \in ReqMethods, u \in Urls, q \in BOOLEAN, c \in CorsPolicies :
           Serve([method |-> m, url |-> u], q, c)
    \/ Return

Spec == Init /\ [][Next]_vars

NextRouting ==
    \/ \E p \in Prefixes : SetGlobalPrefix(p)
    \/ \E p \in RoutingRegPaths, m \in RoutingMethods : Handle(p, FALSE, m)
    \/ Install
    \/ \E m \in RoutingMethods, p \in RoutingPaths : LookupCall(m, p)
    \/ \E p \in RoutingPaths : AllowedCall(p)
    \/ \E m \in RoutingMethods, u \in RoutingUrls, q \in BOOLEAN :
           Serve([method |-> m, url |-> u], q, None)
    \/ Return

SpecRouting == Init /\ [][NextRouting]_vars

-----------------------------------------------------------------------------
(* A Cors builder chain and merge (SpecCors) *)

Origins == {"*", "https://a.example"}
ExposeLists == { <<>>, <<"X-Total">> }
HeaderLists == { <<>>, <<"Content-Type", "Authorization">> }
MethodLists == { <<>>, <<"GET">>, <<"POST", "PUT">> }
MaxAges == { None, Some(3600) }

\* a response that already carries Cors headers
StaleCorsResponse ==
    HttpResponse(200,
                 [x \in {"Access-Control-Allow-Origin", "Access-Control-Allow-Methods",
                         "Content-Type"} |->
                      IF x = "Content-Type" THEN <<"text/html">> ELSE <<"stale">>],
                 String("page"))
MergeResponses == {HelloResponse, BadResponse, StaleCorsResponse}

Builder(c) ==
    /\ last.op = "none"
    /\ cors' = c
    /\ UNCHANGED <<router, ROUTER, phase, last, inflight>>

CorsNewCall == Builder(CorsNew)
AllowOrigin(origin) == Builder(allow_origin(cors, origin))
AnyCall == Builder(any(cors))
Credentials(value) == Builder(credentials(cors, value))
ExposedHeaders(headers) == Builder(exposed_headers(cors, headers))
AllowHeaders(headers) == Builder(allow_headers(cors, headers))
MaxAge(value) == Builder(max_age(cors, value))
AllowMethods(methods) == Builder(allow_methods(cors, methods))

\* cors.merge(&mut response)
Merge(response) ==
    /\ last.op = "none"
    /\ last' = [op |-> "merge", cors |-> cors, response |-> response,
                res |-> merge(cors, response)]
    /\ UNCHANGED <<router, ROUTER, phase, cors, inflight>>

NextCors ==
    \/ CorsNewCall
    \/ \E o \in Origins : AllowOrigin(o)
    \/ AnyCall
    \/ \E v \in BOOLEAN : Credentials(v)
    \/ \E h \in ExposeLists : ExposedHeaders(h)
    \/ \E h \in HeaderLists : AllowHeaders(h)
    \/ \E v \in MaxAges : MaxAge(v)
    \/ \E m \in MethodLists : AllowMethods(m)
    \/ \E r \in MergeResponses : Merge(r)
    \/ Return

SpecCors == Init /\ [][NextCors]_vars

-----------------------------------------------------------------------------
(* Invocations in flight across an upgrade (SpecUpgrade) *)

\* controller::setup() of three versions of the canister code
Versions == {"v1", "v2", "v3"}
setup(v) ==
    CASE v = "v1" -> handle(RouterNew, Str("hello"), FALSE, "GET")
      [] v = "v2" -> handle(RouterNew, Str("hello"), TRUE, "GET")
      [] v = "v3" -> handle(RouterNew, Str(":value"), FALSE, "GET")

UpgradeUrls == { Str("hello"), <<"/">> }

\* post_upgrade: the holder is given the table of the new version
PostUpgrade(v) ==
    /\ phase = "serving"
    /\ ROUTER' = Some(setup(v))
    /\ UNCHANGED <<router, phase, last, cors, inflight>>

\* the table an invocation works on: the copy bootstrap took when it started
router_of_holder(call, holder) == holder[1]
router_of(call, holder) == call.router

Completed(i, call, d) ==
    [op |-> "completed", id |-> i, router |-> call.router, installed |-> ROUTER[1], done |-> d]

\* an entry point is entered: bootstrap copies the table out of the holder and serve
\* runs up to the await of the handler, or to its end if it calls no handler
Begin(i, req, is_query) ==
    /\ phase = "serving"
    /\ inflight[i] = Idle
    /\ LET call == [stage |-> "suspended", router |-> ROUTER[1], req |-> req,
                    is_query |-> is_query]
           ds == serve(router_of(call, ROUTER), None, is_query, req)
       IN  IF \E d \in ds : d.calls # <<>>
           THEN /\ inflight' = [inflight EXCEPT ![i] = call]
                /\ UNCHANGED last
           ELSE /\ \E d \in ds : last' = Completed(i, call, d)
                /\ UNCHANGED inflight
    /\ UNCHANGED <<router, ROUTER, phase, cors>>

\* the handler of a suspended invocation finishes and serve runs to its end
Resume(i) ==
    /\ inflight[i] # Idle
    /\ \E d \in serve(router_of(inflight[i], ROUTER), None,
                       inflight[i].is_query, inflight[i].req) :
           last' = Completed(i, inflight[i], d)
    /\ inflight' = [inflight EXCEPT ![i] = Idle]
    /\ UNCHANGED <<router, ROUTER, phase, cors>>

NextUpgrade ==
    \/ \E u \in BOOLEAN : Handle(Str("hello"), u, "GET")
    \/ Install
    \/ \E v \in Versions : PostUpgrade(v)
    \/ \E i \in Invocations, u \in UpgradeUrls, q \in BOOLEAN :
           Begin(i, [method |-> "GET", url |-> u], q)
    \/ \E i \in Invocations : Resume(i)
    \/ Return

SpecUpgrade == Init /\ [][NextUpgrade]_vars

-----------------------------------------------------------------------------
(* The host retries a rejected query as an update (SpecRetry) *)

RetryMethods == {"GET", "OPTIONS"}

\* the host re-issues through http_request_update the request that http_request
\* answered with status 500 and upgrade = Some(true)
Retry ==
    /\ phase = "serving"
    /\ last.op = "serve"
    /\ last.is_query
    /\ last.res.status_code = 500
    /\ last.res.upgrade = Some(TRUE)
    /\ \E d \in serve(ROUTER[1], last.cors, FALSE, last.req) :
           last' = [op |-> "retry", first |-> last, done |-> d]
    /\ UNCHANGED <<router, ROUTER, phase, cors, inflight>>

NextRetry ==
    \/ \E p \in RegPaths, u \in BOOLEAN, m \in RetryMethods : Handle(p, u, m)
    \/ \E u \in BOOLEAN : GlobalOptions(u)
    \/ Install
    \/ \E m \in RetryMethods, u \in Urls, q \in BOOLEAN, c \in CorsPolicies :
           Serve([method |-> m, url |-> u], q, c)
    \/ Retry
    \/ Return

SpecRetry == Init /\ [][NextRetry]_vars

-----------------------------------------------------------------------------
(* Registration with arbitrary prefixes and paths (SpecRegister) *)

RegisterPrefixes == { <<>>, Str("api"), <<"api">> }
RegisterPaths == { <<"/">>, Str("hello"), <<"hello">>, Str(":value") }
RegisterMethods == {"GET", "PUT"}
RegisterLookups ==
    { <<>>, Str("hello"), Str("abc123"), Str("api") \o Str("hello"), <<"api">> \o Str("hello") }
RegisterUrls == { <<>>, <<"/">>, <<"/", "?", "q=1">>, Str("hello") }

NextRegister ==
    \/ \E p \in RegisterPrefixes : SetGlobalPrefix(p)
    \/ \E p \in RegisterPaths, m \in RegisterMethods : Handle(p, FALSE, m)
    \/ Install
    \/ \E m \in RegisterMethods, p \in RegisterLookups : LookupCall(m, p)
    \/ \E m \in RegisterMethods, u \in RegisterUrls, q \in BOOLEAN :
           Serve([method |-> m, url |-> u], q, None)
    \/ Return

SpecRegister == Init /\ [][NextRegister]_vars

-----------------------------------------------------------------------------
(* The html template example: static files and the holder (SpecTemplate) *)

\* controller::setup() of the example: one page at "/"
template_setup == handle(RouterNew, <<"/">>, FALSE, "GET")

\* the files compiled into the canister
STATICS == <<"style.css", "app.js">>
StaticPath(name) == <<"/", "static", "/", name>>

\* the first n rounds of the loop of use_statics on table r
RECURSIVE use_statics_upto(_, _)
use_statics_upto(r, n) ==
    IF n = 0 THEN r
    ELSE handle(use_statics_upto(r, n - 1), StaticPath(STATICS[n]), FALSE, "GET")
use_statics(r) == use_statics_upto(r, Len(STATICS))

TemplateUrls ==
    { <<"/">>, StaticPath("style.css"), StaticPath("app.js"), StaticPath("logo.png"),
      Str("static"), Str("hello"), <<"/", "?", "q=1">>,
      StaticPath("style.css") \o <<"/">> }
TemplateMethods == {"GET", "POST", "OPTIONS", "BREW"}

\* first use of the thread-local holder: it is initialised with controller::setup()
Startup ==
    /\ phase = "setup"
    /\ ROUTER = None
    /\ ROUTER' = Some(template_setup)
    /\ phase' = "serving"
    /\ UNCHANGED <<router, last, cors, inflight>>

\* post_upgrade of the example: the holder is assigned controller::setup(), then
\* use_statics registers one route per file through a mutable borrow of the holder;
\* writes lists the content of the holder after each of these writes
TemplatePostUpgrade ==
    /\ phase = "serving"
    /\ last.op = "none"
    /\ ROUTER' = Some(use_statics(template_setup))
    /\ last' = [op |-> "post_upgrade",
                writes |-> <<[write |-> "replace", table |-> template_setup]>>
                           \o [n \in 1..Len(STATICS) |->
                                  [write |-> "register",
                                   table |-> use_statics_upto(template_setup, n)]]]
    /\ UNCHANGED <<router, phase, cors, inflight>>

NextTemplate ==
    \/ Startup
    \/ TemplatePostUpgrade
    \/ \E m \in TemplateMethods, u \in TemplateUrls, q \in BOOLEAN :
           Serve([method |-> m, url |-> u], q, None)
    \/ Return

SpecTemplate == Init /\ [][NextTemplate]_vars

-----------------------------------------------------------------------------
(* Properties *)

T == ROUTER[1]
Served == last.op = "serve"
ReqPath == get_path(last.req.url)
Parsed == from_str(last.req.method) # None
Found == lookup(T, last.req.method, ReqPath)
Unmatched == Served /\ Parsed /\ ~Found.ok
Range(f) == {f[i] : i \in DOMAIN f}

\* C1: on the read-only entry point a request that matches a handler record whose
\* upgrade flag is true runs no handler and is answered 500 with upgrade = Some(true).
C1_GateRejects ==
    (Served /\ last.is_query /\ Parsed /\ Found.ok /\ Found.value.upgrade)
        => /\ last.calls = <<>>
           /\ last.res.status_code = 500
           /\ last.res.upgrade = Some(TRUE)

C1_Witness ==
    /\ Served /\ last.is_query /\ Parsed
    /\ Found.ok /\ Found.value.upgrade
    /\ last.outcome = "UpgradeRequired"

\* C2: no serve invocation on the read-only entry point executes a handler whose
\* record carries upgrade = true, the global OPTIONS fallback included.
C2_NoUpgradeHandlerInQuery ==
    (Served /\ last.is_query) => \A i \in DOMAIN last.calls : ~last.calls[i].upgrade

\* C7: an OPTIONS request that matches no route, with automatic OPTIONS handling on,
\* no fallback handler and a non-empty allowed(path), runs no handler and is answered
\* 204 with Access-Control-Allow-Methods set by the Cors merge if the merge sets it,
\* and otherwise to the comma-joined allowed(path) list.
CorsSetsMethods(c) == c # None /\ c[1].allow_origin # None /\ c[1].allow_methods # <<>>

C7_Case ==
    /\ Unmatched /\ last.req.method = "OPTIONS"
    /\ T.handle_options /\ T.global_options = None
    /\ allowed_verbs(T, ReqPath) # {}

C7_SyntheticPreflight ==
    C7_Case
        => /\ last.calls = <<>>
           /\ last.res.status_code = 204
           /\ "Access-Control-Allow-Methods" \in DOMAIN last.res.headers
           /\ LET h == last.res.headers["Access-Control-Allow-Methods"]
              IN  IF CorsSetsMethods(last.cors)
                  THEN h = join(last.cors[1].allow_methods, ", ")
                  ELSE h \in {join(a, ",") : a \in allowed(T, ReqPath)}

\* OPTIONS /hello with GET /hello and POST /hello registered and no Cors policy
C7_Witness ==
    /\ C7_Case /\ last.cors = None
    /\ last.req.url = Str("hello")
    /\ {"GET", "POST"} \subseteq DOMAIN T.trees
    /\ last.res.status_code = 204
    /\ {"GET", "POST", "OPTIONS"} \subseteq Range(last.res.headers["Access-Control-Allow-Methods"])

\* C8: the result of the fallback (global OPTIONS) handler gets the treatment of a
\* normal match: unwrapped, the Cors policy merged into its headers, the wire upgrade
\* flag set to the fallback's declared flag.
C8_FallbackTreatedAsMatch ==
    (Served /\ last.outcome = "PreflightFallback")
        => /\ Len(last.calls) = 1
           /\ last.res = build_and_execute_request(last.cors, last.calls[1].res,
                                                   T.global_options[1].upgrade)

\* C9: the handler registered with global_options answers every request, of any
\* method, that matches no registered route.
C9_DefaultHandler ==
    (Unmatched /\ T.global_options # None)
        => /\ Len(last.calls) = 1
           /\ last.calls[1].handler = T.global_options[1].handler
           /\ last.res.status_code = unwrap_response(last.calls[1].res).status_code

-----------------------------------------------------------------------------
(* Properties of the route table (SpecRouting) *)

\* the path a registration call named: the prefix in force followed by its path
RegAt(e) == e.value.handler.prefix \o e.value.handler.path
\* the same with one trailing "/" removed
ResolvesAt(e) == IF ends_with_slash(RegAt(e)) THEN pop(RegAt(e)) ELSE RegAt(e)

Preferred(tree, e, path) ==
    /\ Matches(e.route, path)
    /\ \A f \in tree : ~(Matches(f.route, path) /\ MoreStatic(f.route, e.route))

\* C3 as claimed: looking up a method and a concrete path that matches a pattern
\* registered under it returns that pattern's handler and binds its parameters.
C3_Original ==
    last.op = "lookup"
        => \A e \in tree_of(T, last.method) :
               Matches(e.route, last.path)
                   => /\ last.res.ok
                      /\ last.res.value = e.value
                      /\ last.res.params = Bind(e.route, last.path)

\* C3 amended: the same, unless another pattern of the same method matches the path
\* and has a literal segment where this one has a parameter; serve hands the matched
\* handler the normalized path and the bound parameters.
C3_LookupFindsRegistered ==
    /\ last.op = "lookup"
           => \A e \in tree_of(T, last.method) :
                  Preferred(tree_of(T, last.method), e, last.path)
                      => /\ last.res.ok
                         /\ last.res.value = e.value
                         /\ last.res.params = Bind(e.route, last.path)
    /\ (Served /\ Parsed)
           => \A e \in tree_of(T, last.req.method) :
                  (Preferred(tree_of(T, last.req.method), e, ReqPath)
                       /\ ~(last.is_query /\ e.value.upgrade))
                      => /\ Len(last.calls) = 1
                         /\ last.calls[1].handler = e.value.handler
                         /\ last.calls[1].req.path = ReqPath
                         /\ last.calls[1].req.params = Bind(e.route, ReqPath)
                         /\ last.res.status_code = unwrap_response(last.calls[1].res).status_code

\* PUT /abc123 on the read-only entry point, PUT /:value registered with upgrade = false
C3_Witness ==
    /\ Served /\ last.is_query
    /\ last.req = [method |-> "PUT", url |-> Str("abc123")]
    /\ \E e \in tree_of(T, "PUT") : e.route = Str(":value") /\ ~e.value.upgrade
    /\ last.res.status_code = 200
    /\ Len(last.calls) = 1
    /\ last.calls[1].req.params = [n \in {"value"} |-> "abc123"]

HandlersCalled(d) == [i \in DOMAIN d.calls |-> d.calls[i].handler]

DispatchOf(m, url) ==
    {HandlersCalled(d) : d \in serve(T, last.cors, last.is_query, [method |-> m, url |-> url])}

Stored(r, p, m) ==
    IF handle_panics(r, p, m) THEN None
    ELSE Some({e.route : e \in handle(r, p, FALSE, m).trees[m]})

\* C4 as claimed: for every route registered at a pattern p, a request for p followed
\* by "/" is dispatched to the handler a request for p is dispatched to, and
\* registering p followed by "/" stores the route that registering p stores.
C4_Original ==
    /\ Served
           => \A e \in tree_of(T, last.req.method) :
                  BeforeQuery(last.req.url) = RegAt(e) \o <<"/">>
                      => HandlersCalled(last) \in DispatchOf(last.req.method, RegAt(e))
    /\ phase = "setup"
           => \A p \in RoutingRegPaths, m \in RoutingMethods :
                  Stored(router, p \o <<"/">>, m) = Stored(router, p, m)

\* C4 amended: the same for every pattern p that does not itself end in "/".
C4_TrailingSlash ==
    /\ Served
           => \A e \in tree_of(T, last.req.method) :
                  (BeforeQuery(last.req.url) = RegAt(e) \o <<"/">> /\ ~ends_with_slash(RegAt(e)))
                      => HandlersCalled(last) \in DispatchOf(last.req.method, RegAt(e))
    /\ phase = "setup"
           => \A p \in RoutingRegPaths, m \in RoutingMethods :
                  ~ends_with_slash(p)
                      => Stored(router, p \o <<"/">>, m) = Stored(router, p, m)

\* GET /hello/?q=1 is run by the handler registered at /hello
C4_Witness ==
    /\ Served
    /\ last.req.url = Str("hello") \o <<"/", "?", "q=1">>
    /\ Len(last.calls) = 1
    /\ last.calls[1].handler.path = Str("hello")
    /\ last.calls[1].handler.prefix = <<>>

\* C5 as claimed: a route resolves exactly at the prefix in force when it was
\* registered followed by its path.
C5_Original ==
    last.op = "lookup"
        => (last.res.ok <=> \E e \in tree_of(T, last.method) : Matches(RegAt(e), last.path))

\* C5 amended: a route resolves exactly at the prefix in force when it was registered
\* followed by its path, with one trailing "/" removed; lookup and allowed() agree on
\* it, and the prefix the table has when it is queried plays no part.
C5_PrefixAtRegistration ==
    /\ last.op = "lookup"
           => (last.res.ok
                   <=> \E e \in tree_of(T, last.method) : Matches(ResolvesAt(e), last.path))
    /\ (last.op = "allowed" /\ last.path # <<"*">>)
           => Range(last.res) \ {"OPTIONS"}
                  = {m \in (DOMAIN T.trees) \ {"OPTIONS"} :
                         \E e \in T.trees[m] : Matches(ResolvesAt(e), last.path)}

\* /hello registered under the prefix /api, the prefix changed afterwards
C5_Witness ==
    /\ last.op = "lookup" /\ last.res.ok
    /\ last.path = Str("api") \o Str("hello")
    /\ last.res.value.handler.prefix = Str("api")
    /\ last.res.value.handler.path = Str("hello")
    /\ T.prefix = <<>>

\* C6 as claimed: allowed(path) is the set of verbs that have a registered route
\* matching path, with OPTIONS appended, and is empty when no verb has one.
C6_Original ==
    last.op = "allowed"
        => LET V == {m \in Methods : at(tree_of(T, m), last.path) # None}
           IN  IF V = {} THEN last.res = <<>>
               ELSE /\ Range(last.res) = V \cup {"OPTIONS"}
                    /\ last.res[Len(last.res)] = "OPTIONS"

\* C6 amended: for a path other than "*", allowed(path) lists once each verb other
\* than OPTIONS that has a registered route matching path, then OPTIONS, and is empty
\* when no such verb exists; for "*" the verbs are all those with any route.
C6_Allowed ==
    last.op = "allowed"
        => LET V == IF last.path = <<"*">>
                    THEN (DOMAIN T.trees) \ {"OPTIONS"}
                    ELSE {m \in Methods \ {"OPTIONS"} :
                              \E e \in tree_of(T, m) : Matches(e.route, last.path)}
           IN  IF V = {} THEN last.res = <<>>
               ELSE /\ Len(last.res) = Cardinality(V) + 1
                    /\ Range(SubSeq(last.res, 1, Len(last.res) - 1)) = V
                    /\ last.res[Len(last.res)] = "OPTIONS"

C6_Witness ==
    /\ last.op = "allowed"
    /\ last.path = Str("hello")
    /\ Range(last.res) = {"GET", "PUT", "OPTIONS"}
    /\ Len(last.res) = 3

-----------------------------------------------------------------------------
(* Error responses of serve (Spec) *)

\* the request matches no route and is not an OPTIONS request that can be answered
NoRouteCase ==
    /\ Unmatched
    /\ ~(last.req.method = "OPTIONS" /\ T.handle_options /\ allowed_verbs(T, ReqPath) # {})

\* C11: a request whose method parses, that matches no route and is not a satisfiable
\* OPTIONS pre-flight runs no handler and is answered 404 with the message
\* "Cannot <METHOD> <path>" ("/" for the empty path) and upgrade = Some(false).
C11_NotFound ==
    NoRouteCase
        => /\ last.calls = <<>>
           /\ last.res.status_code = 404
           /\ last.res.body[2].message
                  = <<"Cannot", last.req.method>> \o (IF ReqPath = <<>> THEN <<"/">> ELSE ReqPath)
           /\ last.res.upgrade = Some(FALSE)

\* DELETE /abc123 while another verb has a route that matches /abc123
C11_Witness ==
    /\ NoRouteCase
    /\ last.req = [method |-> "DELETE", url |-> Str("abc123")]
    /\ \E m \in DOMAIN T.trees : at(T.trees[m], Str("abc123")) # None
    /\ last.res.status_code = 404
    /\ last.res.body[2].message = <<"Cannot", "DELETE", "/", "abc123">>

\* C12: a request whose method is not a recognized verb runs no handler and is answered
\* with the generic 500 response, the same on both entry points and for every table.
C12_MalformedMethod ==
    (Served /\ last.req.method \notin Methods)
        => /\ last.calls = <<>>
           /\ last.res =
                  [status_code |-> 500,
                   headers |-> [h \in {"Content-Type", "X-Powered-By"} |->
                                    IF h = "Content-Type" THEN <<"application/json">>
                                    ELSE <<"Pluto">>],
                   body |-> <<"json", [statusCode |-> 500,
                                       message |-> <<"Internal server error">>]>>,
                   upgrade |-> Some(FALSE)]

\* FOO /hello on the update entry point, with /hello registered under a verb
C12_Witness ==
    /\ Served /\ ~last.is_query
    /\ last.req = [method |-> "FOO", url |-> Str("hello")]
    /\ \E m \in DOMAIN T.trees : at(T.trees[m], Str("hello")) # None
    /\ last.res.status_code = 500

\* C13: for the same request, table, Cors policy and entry point, a handler that
\* returns Err(r) gets the wire response a handler that returns Ok(r) gets.
C13_ErrLikeOk ==
    (Served /\ Len(last.calls) = 1)
        => \A d \in serve(T, last.cors, last.is_query, last.req) :
               (Len(d.calls) = 1 /\ d.calls[1].res[2] = last.calls[1].res[2])
                   => d.res = last.res

\* the handler returned Err(r) for an r it also returns as Ok(r); a Cors policy is merged
C13_Witness ==
    /\ Served /\ Len(last.calls) = 1
    /\ last.calls[1].res = Err(HelloResponse)
    /\ Ok(HelloResponse) \in HandlerResults
    /\ last.cors # None /\ last.cors[1].allow_origin # None
    /\ last.res.status_code = 200
    /\ "Access-Control-Allow-Origin" \in DOMAIN last.res.headers

-----------------------------------------------------------------------------
(* Properties of Cors::merge (SpecCors) *)

Merged == last.op = "merge"

\* C14: merge with a policy whose allow-origin is unset leaves status, headers and
\* body of the response as they were, whatever else the policy sets.
C14_NoOriginNoOp ==
    (Merged /\ last.cors.allow_origin = None) => last.res = last.response

\* no origin, but methods, headers, exposed headers, credentials and max-age all set
C14_Witness ==
    /\ Merged
    /\ last.cors.allow_origin = None
    /\ last.cors.allow_methods # <<>> /\ last.cors.allow_headers # <<>>
    /\ last.cors.expose_headers # <<>> /\ last.cors.allow_credentials
    /\ last.cors.max_age # None
    /\ last.res = last.response

CorsHeaders ==
    {"Access-Control-Allow-Origin", "Access-Control-Allow-Credentials",
     "Access-Control-Expose-Headers", "Access-Control-Allow-Headers",
     "Access-Control-Allow-Methods", "Access-Control-Max-Age", "Vary"}

\* the value merge is to give header h under policy c, None if it is not to set it
Expected(c, h) ==
    CASE h = "Access-Control-Allow-Origin" ->
             Some(IF c.allow_origin[1] = <<"All">> THEN <<"*">> ELSE <<c.allow_origin[1][2]>>)
      [] h = "Access-Control-Allow-Credentials" ->
             IF c.allow_credentials THEN Some(<<"true">>) ELSE None
      [] h = "Access-Control-Expose-Headers" ->
             IF c.expose_headers # <<>> THEN Some(join(c.expose_headers, ", ")) ELSE None
      [] h = "Access-Control-Allow-Headers" ->
             IF c.allow_headers # <<>> THEN Some(join(c.allow_headers, ", ")) ELSE None
      [] h = "Access-Control-Allow-Methods" ->
             IF c.allow_methods # <<>> THEN Some(join(c.allow_methods, ", ")) ELSE None
      [] h = "Access-Control-Max-Age" ->
             IF c.max_age # None THEN Some(<<ToString(c.max_age[1])>>) ELSE None
      [] h = "Vary" -> IF c.vary_origin THEN Some(<<"Origin">>) ELSE None

-----------------------------------------------------------------------------
(* The wire response of serve (Spec) *)

\* the request matched a route and the matched handler ran
RanMatched == Served /\ Parsed /\ Found.ok /\ Len(last.calls) = 1

\* C16 as claimed: a response produced by running the matched handler never has
\* upgrade = true, and a response with upgrade = true is one that ran no handler on
\* the read-only entry point.
C16_Original ==
    /\ RanMatched => last.res.upgrade # Some(TRUE)
    /\ (Served /\ last.res.upgrade = Some(TRUE)) => (last.is_query /\ last.calls = <<>>)

\* C16 amended: a response produced by running the matched handler carries the
\* handler's declared flag, which is false whenever the call came in on the read-only
\* entry point.
C16_HandledFlag ==
    RanMatched
        => /\ last.res.upgrade = Some(Found.value.upgrade)
           /\ last.is_query => last.res.upgrade = Some(FALSE)

\* a handler declared with upgrade = true ran on the update entry point
C16_Witness ==
    /\ RanMatched
    /\ ~last.is_query
    /\ Found.value.upgrade
    /\ last.res.upgrade = Some(TRUE)

\* the request can be answered as a pre-flight by the fallback handler
FallbackCase ==
    /\ Unmatched /\ last.req.method = "OPTIONS"
    /\ T.handle_options /\ T.global_options # None
    /\ allowed_verbs(T, ReqPath) # {}

\* C17: every response of serve carries upgrade = Some(b): b is the matched record's
\* flag when a route matched, the fallback record's flag when the fallback handler
\* answered, and false for the synthetic 204, the 404 and the method-parse 500.
C17_ExplicitFlag ==
    Served
        => last.res.upgrade =
               Some(IF ~Parsed THEN FALSE
                    ELSE IF Found.ok THEN Found.value.upgrade
                    ELSE IF FallbackCase THEN T.global_options[1].upgrade
                    ELSE FALSE)

\* a fallback handler declared with upgrade = true answered a pre-flight
C17_Witness ==
    /\ FallbackCase
    /\ T.global_options[1].upgrade
    /\ Len(last.calls) = 1
    /\ last.res.upgrade = Some(TRUE)

\* C18: every response of serve carries X-Powered-By: Pluto and a Content-Type, which
\* is the one the handler's response had, and application/json when it had none or no
\* handler ran.
C18_DefaultHeaders ==
    Served
        => /\ {"X-Powered-By", "Content-Type"} \subseteq DOMAIN last.res.headers
           /\ last.res.headers["X-Powered-By"] = <<"Pluto">>
           /\ last.res.headers["Content-Type"] =
                  IF /\ Len(last.calls) = 1
                     /\ "Content-Type" \in DOMAIN last.calls[1].res[2].headers
                  THEN last.calls[1].res[2].headers["Content-Type"]
                  ELSE <<"application/json">>

\* the handler's response set Content-Type: text/plain and X-Powered-By: handler
C18_Witness ==
    /\ RanMatched
    /\ last.calls[1].res = Err(BadResponse)
    /\ BadResponse.headers["X-Powered-By"] = <<"handler">>
    /\ last.res.headers["X-Powered-By"] = <<"Pluto">>
    /\ last.res.headers["Content-Type"] = <<"text/plain">>

-----------------------------------------------------------------------------
(* Registration conflicts (SpecRouting) *)

Normalized(s) == IF ends_with_slash(s) THEN pop(s) ELSE s

\* registering path under method on r names a pattern that is already registered
\* under that method, or one that differs from it only in a parameter's name
Conflicts(r, path, method) ==
    \E e \in tree_of(r, method) :
        \/ ResolvesAt(e) = Normalized(r.prefix \o path)
        \/ ParamClash(ResolvesAt(e), Normalized(r.prefix \o path))

\* no two handlers of one method are filed under the same or under clashing patterns
NoShadow(r) ==
    \A m \in DOMAIN r.trees : \A e, f \in r.trees[m] :
        e # f => (e.route # f.route /\ ~ParamClash(e.route, f.route))

\* C19: a registration whose normalized pattern duplicates or conflicts with one
\* already registered under the same method aborts the setup pass and leaves the
\* table as it was; no registration removes or replaces a handler registered before,
\* and no table holds two handlers under one pattern.
C19_ConflictAborts ==
    /\ [](NoShadow(router) /\ (ROUTER # None => NoShadow(T)))
    /\ [][ /\ \A p \in RoutingRegPaths, m \in RoutingMethods :
                  (Handle(p, FALSE, m) /\ Conflicts(router, p, m))
                      => (phase' = "aborted" /\ router' = router)
           /\ (phase = "setup" /\ phase' # "serving")
                  => \A m \in DOMAIN router.trees : router.trees[m] \subseteq tree_of(router', m)
         ]_vars

\* /hello/ registered under a method that already has /hello: the pass aborted and
\* the handler registered first is still the one filed under /hello
C19_Witness ==
    /\ phase = "aborted"
    /\ last.op = "panic"
    /\ last.path = Str("hello") \o <<"/">>
    /\ \E e \in tree_of(router, last.method) :
           /\ e.route = Str("hello")
           /\ e.value.handler.path = Str("hello")

-----------------------------------------------------------------------------
(* The holder of the route table under concurrent invocations (SpecUpgrade) *)

\* C20: no step of a serve invocation changes the holder of the route table, and an
\* invocation that called a handler completes with the handler and the upgrade flag
\* that the table it copied at its start gives for its request, whatever table the
\* holder has by then.
C20_SnapshotIsolation ==
    /\ [][ROUTER' # ROUTER => (inflight' = inflight /\ last' = last)]_vars
    /\ []((last.op = "completed" /\ last.done.calls # <<>>)
              => LET lk == lookup(last.router, last.done.req.method,
                                  get_path(last.done.req.url))
                 IN  /\ lk.ok
                     /\ Len(last.done.calls) = 1
                     /\ last.done.calls[1].handler = lk.value.handler
                     /\ last.done.calls[1].upgrade = lk.value.upgrade
                     /\ last.done.res.upgrade = Some(lk.value.upgrade))

\* GET /hello completed with the handler of the table it started with, while the
\* holder has a table that gives /hello to another handler
C20_Witness ==
    /\ last.op = "completed"
    /\ Len(last.done.calls) = 1
    /\ last.installed # last.router
    /\ lookup(last.installed, "GET", Str("hello")).ok
    /\ lookup(last.installed, "GET", Str("hello")).value.handler # last.done.calls[1].handler
    /\ last.done.calls[1].handler
           = lookup(last.router, "GET", Str("hello")).value.handler

\* C21: a policy built with allow_origin(origin) has the vary_origin flag set, and a
\* merge with it gives the response Access-Control-Allow-Origin: origin and
\* Vary: Origin.
C21_AllowOriginSetsVary ==
    /\ (cors.allow_origin # None /\ cors.allow_origin[1][1] = "Some") => cors.vary_origin
    /\ (Merged /\ last.cors.allow_origin # None /\ last.cors.allow_origin[1][1] = "Some")
           => /\ last.res.headers["Access-Control-Allow-Origin"] = <<last.cors.allow_origin[1][2]>>
              /\ "Vary" \in DOMAIN last.res.headers
              /\ last.res.headers["Vary"] = <<"Origin">>

-----------------------------------------------------------------------------
(* The upgrade-retry protocol (SpecRetry) *)

\* C22: when a request was answered 500 with upgrade = Some(true) on the read-only
\* entry point and is issued again on the update entry point against the same table,
\* the rejected call ran no handler and the second call runs the matched handler once
\* and answers with the status and body that handler returned.
C22_RetryRuns ==
    last.op = "retry"
        => LET lk == lookup(T, last.done.req.method, get_path(last.done.req.url))
               hres == last.done.calls[1].res[2]
           IN  /\ last.first.calls = <<>>
               /\ last.done.req = last.first.req
               /\ Len(last.done.calls) = 1
               /\ lk.ok
               /\ last.done.calls[1].handler = lk.value.handler
               /\ last.done.res.status_code = hres.status_code
               /\ last.done.res.body = body_bytes(hres.body)

\* GET /hello, registered with upgrade = true: 500 as a query, 200 as an update
C22_Witness ==
    /\ last.op = "retry"
    /\ last.first.req = [method |-> "GET", url |-> Str("hello")]
    /\ last.first.res.status_code = 500
    /\ last.first.res.upgrade = Some(TRUE)
    /\ Len(last.done.calls) = 1
    /\ last.done.res.status_code = 200

-----------------------------------------------------------------------------
(* Where the trailing "/" is stripped (SpecRouting) *)

SameMatch(a, b) == a.ok = b.ok /\ (a.ok => (a.value = b.value /\ a.params = b.params))

-----------------------------------------------------------------------------
(* Stored patterns (SpecRegister) *)

Entries(r) == UNION {r.trees[m] : m \in DOMAIN r.trees}
AllEntries == Entries(router) \cup (IF ROUTER = None THEN {} ELSE Entries(T))

\* C24 as claimed: every stored pattern begins with "/".
C24_Original == \A e \in AllEntries : starts_with_slash(e.route)

\* C24 amended: every stored pattern is the prefix in force at its registration
\* followed by a path that begins with "/", less one trailing "/"; it begins with "/"
\* exactly when the prefix does, or the prefix is empty and the path is not "/".
\* Registering a path that does not begin with "/" aborts the pass.
C24_StoredPatterns ==
    /\ [](\A e \in AllEntries :
              /\ starts_with_slash(e.value.handler.path)
              /\ e.route = Normalized(RegAt(e))
              /\ starts_with_slash(e.route)
                     <=> \/ starts_with_slash(e.value.handler.prefix)
                         \/ (e.value.handler.prefix = <<>> /\ e.value.handler.path # <<"/">>))
    /\ [][\A p \in RegisterPaths, m \in RegisterMethods :
              (Handle(p, FALSE, m) /\ ~starts_with_slash(p))
                  => (phase' = "aborted" /\ router' = router)]_vars

\* "/" is stored as the empty pattern, and registering hello aborted the pass
C24_Witness ==
    /\ phase = "aborted"
    /\ last.op = "panic"
    /\ last.path = <<"hello">>
    /\ \E e \in Entries(router) : e.route = <<>> /\ e.value.handler.path = <<"/">>

IsLiteral(route) == \A i \in DOMAIN Split(route) : ~IsParam(Split(route)[i])

\* both registrations succeed, in this order, on table r
BothRegister(r, a, b, m) ==
    /\ ~handle_panics(r, a, m)
    /\ ~handle_panics(handle(r, a, FALSE, m), b, m)

\* C26: a lookup of a path that is itself a stored literal pattern returns that
\* pattern's handler with no parameter, also when a parameter pattern of the same
\* method matches the path; two patterns registered in either order give the same
\* lookup results.
C26_LiteralFirst ==
    /\ last.op = "lookup"
           => \A e \in tree_of(T, last.method) :
                  (IsLiteral(e.route) /\ e.route = last.path)
                      => /\ last.res.ok
                         /\ last.res.value = e.value
                         /\ last.res.params = EmptyMap
    /\ phase = "setup"
           => \A a, b \in RegisterPaths, m \in RegisterMethods :
                  (BothRegister(router, a, b, m) /\ BothRegister(router, b, a, m))
                      => \A q \in RegisterLookups :
                             SameMatch(lookup(handle(handle(router, a, FALSE, m), b, FALSE, m), m, q),
                                       lookup(handle(handle(router, b, FALSE, m), a, FALSE, m), m, q))

\* /hello looked up under a method that has both /hello and /:value
C26_Witness ==
    /\ last.op = "lookup"
    /\ last.path = Str("hello")
    /\ {Str("hello"), Str(":value")} \subseteq {e.route : e \in tree_of(T, last.method)}
    /\ last.res.ok
    /\ last.res.value.handler.path = Str("hello")
    /\ last.res.params = EmptyMap

\* what a request for url resolves to: the handlers called and the response
ResolvesTo(m, url) ==
    {[handlers |-> HandlersCalled(d), res |-> d.res] :
         d \in serve(T, last.cors, last.is_query, [method |-> m, url |-> url])}

\* C25 as claimed: a request for "/" is looked up at "/" and its handler is handed
\* the path "/".
C25_Original ==
    (Served /\ BeforeQuery(last.req.url) = <<"/">> /\ Len(last.calls) = 1)
        => last.calls[1].req.path = <<"/">>

\* C25 amended: a request for "/", with or without a query string, is looked up at
\* the empty path: it is run by the handler registered at "/", which is handed the
\* empty path, and is answered 404 "Cannot <METHOD> /" when there is none; a request
\* for the empty url resolves to the same.
C25_RootIsEmpty ==
    (Served /\ Parsed /\ BeforeQuery(last.req.url) \in {<<>>, <<"/">>})
        => /\ IF \E e \in tree_of(T, last.req.method) : e.route = <<>>
              THEN /\ Len(last.calls) = 1
                   /\ last.calls[1].req.path = <<>>
                   /\ last.calls[1].handler.path = <<"/">>
              ELSE /\ last.calls = <<>>
                   /\ last.res.status_code = 404
                   /\ last.res.body[2].message = <<"Cannot", last.req.method, "/">>
           /\ ResolvesTo(last.req.method, <<>>) = ResolvesTo(last.req.method, <<"/">>)

\* GET /?q=1 run by the handler registered at "/"
C25_Witness ==
    /\ Served
    /\ last.req.url = <<"/", "?", "q=1">>
    /\ Len(last.calls) = 1
    /\ last.calls[1].handler.path = <<"/">>
    /\ last.calls[1].req.path = <<>>

\* C27: every write a post-upgrade hook makes to the holder replaces the whole table;
\* none registers a route on the table that is installed.
C27_HolderOnlyReplaced ==
    last.op = "post_upgrade"
        => \A n \in DOMAIN last.writes : last.writes[n].write = "replace"

\* C28: whichever table is installed, the one of startup or the one of the
\* post-upgrade hook, a request resolves to an outcome the table of the post-upgrade
\* hook gives it: the static files are served from startup on.
C28_SameBeforeAndAfter ==
    Served
        => \E d \in serve(use_statics(template_setup), last.cors, last.is_query, last.req) :
               /\ d.calls = last.calls
               /\ d.res.status_code = last.res.status_code
               /\ d.res = last.res

-----------------------------------------------------------------------------
(* The two entry points and the Cors policy (Spec) *)

\* the runs of serve for the last request on the other entry point
OtherEntry == serve(T, last.cors, ~last.is_query, last.req)

\* C29: unless the request matches a handler declared upgrade = true, serve gives,
\* for the same table, policy, request and handler result, the same handler call
\* and the same wire response on the other entry point.
C29_EntryPointOnlyGates ==
    (Served /\ ~(Parsed /\ Found.ok /\ Found.value.upgrade))
        => \E d \in OtherEntry : d.calls = last.calls /\ d.res = last.res

\* a handler declared upgrade = false run on the read-only entry point, in a table
\* that also holds a handler declared upgrade = true
C29_Witness ==
    /\ RanMatched /\ last.is_query
    /\ ~Found.value.upgrade
    /\ last.res.status_code = 200
    /\ \E m \in DOMAIN T.trees : \E e \in T.trees[m] : e.value.upgrade

AccessControl == CorsHeaders \ {"Vary"}

\* C30: under a policy with allow-origin set, the response of a matched handler and
\* the synthetic 204 carry Access-Control-Allow-Origin, and no other response carries
\* an Access-Control-* header: not those serve makes up for a rejection (method-parse
\* 500, upgrade-mismatch 500, 404), which run no handler.
C30_CorsOnHandledOnly ==
    (Served /\ last.cors # None /\ last.cors[1].allow_origin # None)
        => /\ (RanMatched \/ C7_Case)
                  => "Access-Control-Allow-Origin" \in DOMAIN last.res.headers
           /\ ~(RanMatched \/ C7_Case)
                  => DOMAIN last.res.headers \cap AccessControl = {}
           /\ last.outcome \in {"MalformedMethod", "UpgradeRequired", "NoRoute"}
                  => /\ ~(RanMatched \/ C7_Case)
                     /\ last.calls = <<>>
                     /\ last.res.status_code \in {500, 404}

\* under the policy allow_origin("https://a.example"), GET /hello is handled with the
\* header set and the table rejects the same request on another verb without it
C30_Witness ==
    /\ RanMatched
    /\ last.cors = Some(allow_origin(CorsNew, "https://a.example"))
    /\ last.res.headers["Access-Control-Allow-Origin"] = <<"https://a.example">>
    /\ \E d \in serve(T, last.cors, last.is_query, [last.req EXCEPT !.method = "DELETE"]) :
           /\ d.res.status_code = 404
           /\ "Access-Control-Allow-Origin" \notin DOMAIN d.res.headers

====
